---- MODULE Spec2Model ----
(***************************************************************************)
(* A model of map_cleaner.py (Project Zomboid Map Cleaner).                *)
(*                                                                         *)
(*   BinaryReader          a cursor over the bytes of map_meta.bin         *)
(*   load_safehouses       the versioned decoder of map_meta.bin           *)
(*   Region                half-open rectangles, expand, contains_point    *)
(*   delete_files_in_area  the coordinate sweep over the save directory    *)
(*                                                                         *)
(* Four specifications share the variables:                                *)
(*   SpecReader   any sequence of BinaryReader calls on any small buffer   *)
(*   SpecRegion   Region.expand followed by Region.contains_point          *)
(*   SpecDecoder  load_safehouses, one step per phase of the function      *)
(*   Spec         delete_files_in_area, one step per statement group, the  *)
(*                phases of its call of load_safehouses included           *)
(***************************************************************************)
EXTENDS Integers, Sequences, FiniteSets, TLC

VARIABLES
    data,             \* BinaryReader.data: the bytes, a sequence over 0..255
    position,         \* BinaryReader.position (Python int, may go negative)
    marked_position,  \* BinaryReader.marked_position: <<>> is None, <<p>> is p
    last              \* the outcome of the latest BinaryReader call

VARIABLES
    region,           \* Region under test: [from_x, from_y, to_x, to_y]
    padding,          \* the argument of Region.expand
    point,            \* the argument of Region.contains_point: <<x, y>>
    expanded,         \* the Region that expand returned
    contained,        \* what contains_point returned
    rpc               \* "built" -> "expanded" -> "tested"

VARIABLES
    file,             \* map_meta.bin as it was written (what data was cut from)
    ls                \* the frame of load_safehouses: its locals and its reader

VARIABLES
    args,             \* the arguments of delete_files_in_area
    disk,             \* the files of the save directory that exist
    disk0,            \* the files that existed when the sweep was called
    locked,           \* the files whose unlink() raises
    sw,               \* the frame of delete_files_in_area: its locals
    visits,           \* the coordinates the loops have reached, in order
    calls             \* the calls of _delete_file_if_exists, in order

readerVars == <<data, position, marked_position, last>>

regionVars == <<region, padding, point, expanded, contained, rpc>>

decoderVars == <<file, ls>>

sweepVars == <<args, disk, disk0, locked, sw, visits, calls>>

vars == <<readerVars, regionVars, decoderVars, sweepVars>>

notReader == <<regionVars, decoderVars, sweepVars>>

notRegion == <<readerVars, decoderVars, sweepVars>>

notDecoder == <<position, marked_position, last, regionVars, sweepVars>>

notSweep == <<readerVars, regionVars, decoderVars>>

----------------------------------------------------------------------------
(* Bounds of the model.                                                    *)

\* longest buffer handed to a free-standing BinaryReader
MaxBufLen == 4

\* BinaryReader calls are explored while position >= -MaxBack
MaxBack == 4

\* Region corners range over -MaxCoord..MaxCoord, paddings over
\* -MaxPad..MaxPad, points over everything an expanded region can cover
MaxCoord == 1

MaxPad == 2

\* most safehouse records written to one map_meta.bin
MaxRecords == 2

\* the widest and the tallest swept rectangle
MaxSpan == 2

\* safehouse paddings of a sweep range over 0..MaxSweepPad
MaxSweepPad == 1

----------------------------------------------------------------------------
(* Bytes and Python's struct / slice / codec primitives.                   *)

Byte == 0..255

\* the two's complement value of one byte ('>b')
S8(b) == IF b >= 128 THEN b - 256 ELSE b

\* struct.unpack_from(fmt, data, offset) raises struct.error unless the
\* offset (counted from the end when negative) leaves size bytes.
UnpackOffset(d, offset) == IF offset < 0 THEN offset + Len(d) ELSE offset

UnpackFits(d, offset, size) ==
    /\ UnpackOffset(d, offset) >= 0
    /\ Len(d) - UnpackOffset(d, offset) >= size

\* '>h' and '>i': signed, big-endian
UnpackInt16(d, offset) ==
    LET q == UnpackOffset(d, offset)
    IN  S8(d[q + 1]) * 256 + d[q + 2]

UnpackInt32(d, offset) ==
    LET q == UnpackOffset(d, offset)
    IN  S8(d[q + 1]) * 16777216 + d[q + 2] * 65536 + d[q + 3] * 256 + d[q + 4]

\* the unsigned value of the same two bytes ('>H')
UnpackUint16(d, offset) ==
    LET q == UnpackOffset(d, offset)
    IN  d[q + 1] * 256 + d[q + 2]

\* data[i:j] with Python's slice rules (negative indices count from the end,
\* both ends are clamped to 0..len)
SliceIndex(d, i) ==
    IF i < 0 THEN (IF i + Len(d) < 0 THEN 0 ELSE i + Len(d))
    ELSE (IF i > Len(d) THEN Len(d) ELSE i)

Slice(d, i, j) == SubSeq(d, SliceIndex(d, i) + 1, SliceIndex(d, j))

\* bytes.decode('utf-8'): the lowest and highest legal second byte after a
\* lead byte, and the length of the sequence the lead byte opens (0: illegal)
Utf8SeqLen(c) ==
    IF c < 128 THEN 1
    ELSE IF c >= 194 /\ c <= 223 THEN 2
    ELSE IF c >= 224 /\ c <= 239 THEN 3
    ELSE IF c >= 240 /\ c <= 244 THEN 4
    ELSE 0

Utf8SecondLow(c) == IF c = 224 THEN 160 ELSE IF c = 240 THEN 144 ELSE 128

Utf8SecondHigh(c) == IF c = 237 THEN 159 ELSE IF c = 244 THEN 143 ELSE 191

IsCont(b) == b >= 128 /\ b <= 191

\* [ok, cps]: the code points of bytes b from index i on, or ok = FALSE
\* where Python raises UnicodeDecodeError
RECURSIVE Utf8From(_, _)
Utf8From(b, i) ==
    IF i > Len(b) THEN [ok |-> TRUE, cps |-> <<>>]
    ELSE
        LET c == b[i]
            n == Utf8SeqLen(c)
            fits == n > 0 /\ i + n - 1 <= Len(b)
            legal == /\ fits
                     /\ n >= 2 => (b[i + 1] >= Utf8SecondLow(c) /\ b[i + 1] <= Utf8SecondHigh(c))
                     /\ n >= 3 => IsCont(b[i + 2])
                     /\ n >= 4 => IsCont(b[i + 3])
            cp == IF n = 1 THEN c
                  ELSE IF n = 2 THEN (c - 192) * 64 + (b[i + 1] - 128)
                  ELSE IF n = 3 THEN (c - 224) * 4096 + (b[i + 1] - 128) * 64 + (b[i + 2] - 128)
                  ELSE (c - 240) * 262144 + (b[i + 1] - 128) * 4096
                       + (b[i + 2] - 128) * 64 + (b[i + 3] - 128)
        IN  IF ~legal THEN [ok |-> FALSE, cps |-> <<>>]
            ELSE LET rest == Utf8From(b, i + n)
                 IN  IF rest.ok THEN [ok |-> TRUE, cps |-> <<cp>> \o rest.cps]
                     ELSE rest

\* utf-8, falling back to latin-1 (every byte is its own code point)
DecodeBytes(b) == IF Utf8From(b, 1).ok THEN Utf8From(b, 1).cps ELSE b

\* string[:string.find('\0')] when a NUL is present
TruncateAtNul(s) ==
    IF \E i \in 1..Len(s) : s[i] = 0
    THEN SubSeq(s, 1, (CHOOSE i \in 1..Len(s) : s[i] = 0 /\ \A j \in 1..(i - 1) : s[j] # 0) - 1)
    ELSE s

----------------------------------------------------------------------------
(* BinaryReader.  Each operator is one method applied at position pos of   *)
(* buffer d: ok = FALSE is the ValueError, pos the position it leaves.     *)

ReadInt8(d, pos) ==
    IF UnpackFits(d, pos, 1)
    THEN [ok |-> TRUE, pos |-> pos + 1, val |-> S8(d[UnpackOffset(d, pos) + 1])]
    ELSE [ok |-> FALSE, pos |-> pos, val |-> 0]

ReadInt16(d, pos) ==
    IF UnpackFits(d, pos, 2)
    THEN [ok |-> TRUE, pos |-> pos + 2, val |-> UnpackInt16(d, pos)]
    ELSE [ok |-> FALSE, pos |-> pos, val |-> 0]

ReadInt32(d, pos) ==
    IF UnpackFits(d, pos, 4)
    THEN [ok |-> TRUE, pos |-> pos + 4, val |-> UnpackInt32(d, pos)]
    ELSE [ok |-> FALSE, pos |-> pos, val |-> 0]

\* read_string with the length already known
ReadStringOfLength(d, pos, length) ==
    IF length = 0 THEN [ok |-> TRUE, pos |-> pos, len |-> length, str |-> <<>>]
    ELSE IF pos + length > Len(d)
    THEN [ok |-> FALSE, pos |-> pos, len |-> length, str |-> <<>>]
    ELSE [ok |-> TRUE, pos |-> pos + length, len |-> length,
          str |-> TruncateAtNul(DecodeBytes(Slice(d, pos, pos + length)))]

\* the length prefix of read_string(None)
ReadLengthPrefix(d, pos) == ReadInt16(d, pos)

\* read_string(None): the length comes from the prefix
ReadString(d, pos) ==
    LET p == ReadLengthPrefix(d, pos)
    IN  IF ~p.ok THEN [ok |-> FALSE, pos |-> p.pos, len |-> 0, str |-> <<>>]
        ELSE ReadStringOfLength(d, p.pos, p.val)

SkipBytes(d, pos, count) ==
    IF pos + count > Len(d) THEN [ok |-> FALSE, pos |-> pos]
    ELSE [ok |-> TRUE, pos |-> pos + count]

\* reset(): the position it restores
ResetPosition(mark) == IF mark # <<>> THEN mark[1] ELSE 0

----------------------------------------------------------------------------
(* Region.                                                                 *)

MakeRegion(a, b, c, d) == [from_x |-> a, from_y |-> b, to_x |-> c, to_y |-> d]

ContainsUpToInclusive(r, x, y) ==
    r.from_x <= x /\ x <= r.to_x /\ r.from_y <= y /\ y <= r.to_y

ContainsIgnoringFrom(r, x, y) ==
    x < r.to_x /\ r.from_y <= y /\ y < r.to_y

\* Region.contains_point
ContainsPoint(r, x, y) ==
    r.from_x <= x /\ x < r.to_x /\ r.from_y <= y /\ y < r.to_y

\* Region.expand
Expand(r, p) == MakeRegion(r.from_x - p, r.from_y - p, r.to_x + p, r.to_y + p)

----------------------------------------------------------------------------
(* load_safehouses.  The function is a frame f of locals (with the reader's *)
(* position and mark) that each phase maps to the next frame; pc names the *)
(* phase to run next.                                                      *)

\* "META"
MetaMarker == <<77, 69, 84, 65>>

\* "'s safe house"
DefaultTitleSuffix == <<39, 115, 32, 115, 97, 102, 101, 32, 104, 111, 117, 115, 101>>

\* the classes the two outer except clauses name (line 299, line 303)
ExceptionClasses == {"ValueError", "IndexError", "OSError"}

OuterHandlerOSErrorOnly(kind) == IF kind = "OSError" THEN "returned" ELSE "raised"

\* except ValueError: return [] / except Exception: return []
OuterHandler(kind) ==
    IF kind = "ValueError" THEN "returned"
    ELSE IF kind \in ExceptionClasses THEN "returned"
    ELSE "raised"

\* the phases of load_safehouses; each has its step, none waits for anything
Phases == {"open", "header", "version", "bounds", "cells", "count", "records", "return"}

\* the frame when load_safehouses is entered
EntryFrame ==
    [pc |-> "open", position |-> 0, mark |-> <<>>, version |-> 0,
     world |-> <<0, 0, 0, 0>>, cell |-> <<0, 0>>, count |-> 0, idx |-> 0,
     safehouses |-> <<>>, rects |-> <<>>, error |-> "none",
     outcome |-> "running", result |-> <<>>]

\* an exception of class kind reaches the outer try with the reader at pos
Raise(f, kind, pos) ==
    [f EXCEPT !.pc = "done", !.position = pos, !.error = kind,
              !.outcome = OuterHandler(kind), !.result = <<>>]

\* return safehouses
Return(f) == [f EXCEPT !.pc = "done", !.outcome = "returned", !.result = f.safehouses]

\* lines 184-194: the file is looked up, read, wrapped in a reader and marked
OpenStep(f, fl) ==
    IF ~fl.exists THEN Return(f)
    ELSE IF ~fl.readable THEN Raise(f, "OSError", 0)
    ELSE [f EXCEPT !.pc = "header", !.position = 0, !.mark = <<0>>]

HeaderStepNoReset(d, f) ==
    LET t == ReadStringOfLength(d, f.position, 4)
    IN  IF ~t.ok THEN Raise(f, "ValueError", t.pos)
        ELSE IF t.str = MetaMarker
        THEN LET v == ReadInt32(d, t.pos)
             IN  IF ~v.ok THEN Raise(f, "ValueError", v.pos)
                 ELSE [f EXCEPT !.pc = "version", !.position = v.pos, !.version = v.val]
        ELSE [f EXCEPT !.pc = "version", !.position = t.pos, !.version = 33]

\* lines 197-204: the 4 probe bytes and the version
HeaderStep(d, f) ==
    LET t == ReadStringOfLength(d, f.position, 4)
    IN  IF ~t.ok THEN Raise(f, "ValueError", t.pos)
        ELSE IF t.str = MetaMarker
        THEN LET v == ReadInt32(d, t.pos)
             IN  IF ~v.ok THEN Raise(f, "ValueError", v.pos)
                 ELSE [f EXCEPT !.pc = "version", !.position = v.pos, !.version = v.val]
        ELSE [f EXCEPT !.pc = "version", !.position = ResetPosition(f.mark),
                       !.mark = <<>>, !.version = 33]

VersionStepOldLimit(f) ==
    IF f.version <= 112 THEN Return(f) ELSE [f EXCEPT !.pc = "bounds"]

\* lines 206-208
VersionStep(f) ==
    IF f.version < 194 THEN Return(f) ELSE [f EXCEPT !.pc = "bounds"]

\* the cells of range(min_x, max_x + 1) x range(min_y, max_y + 1) left after
\* cell c, x outer and y inner; <<>> when the loops are over
FirstCell(w) == IF w[1] <= w[3] /\ w[2] <= w[4] THEN <<<<w[1], w[2]>>>> ELSE <<>>

NextCell(w, c) ==
    IF c[2] < w[4] THEN <<<<c[1], c[2] + 1>>>>
    ELSE IF c[1] < w[3] THEN <<<<c[1] + 1, w[2]>>>>
    ELSE <<>>

\* lines 211-214: min_x, min_y, max_x, max_y
BoundsStep(d, f) ==
    LET a == ReadInt32(d, f.position)
        b == IF a.ok THEN ReadInt32(d, a.pos) ELSE a
        c == IF b.ok THEN ReadInt32(d, b.pos) ELSE b
        e == IF c.ok THEN ReadInt32(d, c.pos) ELSE c
        w == <<a.val, b.val, c.val, e.val>>
    IN  IF ~e.ok THEN Raise(f, "ValueError", e.pos)
        ELSE IF FirstCell(w) = <<>>
        THEN [f EXCEPT !.pc = "count", !.position = e.pos, !.world = w]
        ELSE [f EXCEPT !.pc = "cells", !.position = e.pos, !.world = w,
                       !.cell = FirstCell(w)[1]]

\* the skip_bytes calls made for one room definition (lines 222-231)
RoomSkips(version) ==
    (IF version < 194 THEN <<4>> ELSE <<8>>)
    \o (IF version >= 160 THEN <<2>>
        ELSE <<1>> \o (IF version >= 34 THEN <<1>> ELSE <<>>))

BuildingSkipsLegacyField(version) ==
    (IF version >= 194 THEN <<8>> ELSE <<>>)
    \o <<1>>
    \o (IF version >= 57 THEN <<4>> ELSE <<>>)
    \o (IF version >= 74 THEN <<1>> ELSE <<>>)
    \o (IF version >= 107 THEN <<1>> ELSE <<>>)
    \o (IF version >= 111 THEN <<4>> ELSE <<>>)
    \o (IF version >= 125 THEN <<4>> ELSE <<>>)

\* the skip_bytes calls made for one building definition (lines 236-248)
BuildingSkips(version) ==
    (IF version >= 194 THEN <<8>> ELSE <<>>)
    \o <<1>>
    \o (IF version >= 57 THEN <<4>> ELSE <<>>)
    \o (IF version >= 74 THEN <<1>> ELSE <<>>)
    \o (IF version >= 107 THEN <<1>> ELSE <<>>)
    \o (IF version >= 111 /\ version < 121 THEN <<4>> ELSE <<>>)
    \o (IF version >= 125 THEN <<4>> ELSE <<>>)

\* skip_bytes for each count of skips, in order, stopping at the first failure
RECURSIVE SkipEach(_, _, _)
SkipEach(d, pos, skips) ==
    IF skips = <<>> THEN [ok |-> TRUE, pos |-> pos]
    ELSE LET r == SkipBytes(d, pos, Head(skips))
         IN  IF r.ok THEN SkipEach(d, r.pos, Tail(skips)) ELSE r

\* for _ in range(n): the skips of one definition
RECURSIVE SkipDefinitions(_, _, _, _)
SkipDefinitions(d, pos, n, skips) ==
    IF n <= 0 THEN [ok |-> TRUE, pos |-> pos]
    ELSE LET r == SkipEach(d, pos, skips)
         IN  IF r.ok THEN SkipDefinitions(d, r.pos, n - 1, skips) ELSE r

\* lines 219-248: the room and building definitions of one cell
SkipCell(d, pos, version) ==
    LET rc == ReadInt32(d, pos)
        rs == IF rc.ok THEN SkipDefinitions(d, rc.pos, rc.val, RoomSkips(version))
              ELSE [ok |-> FALSE, pos |-> rc.pos]
        bc == IF rs.ok THEN ReadInt32(d, rs.pos) ELSE [ok |-> FALSE, pos |-> rs.pos, val |-> 0]
    IN  IF bc.ok THEN SkipDefinitions(d, bc.pos, bc.val, BuildingSkips(version))
        ELSE [ok |-> FALSE, pos |-> bc.pos]

\* one iteration of the loops of lines 217-218
CellStep(d, f) ==
    LET r == SkipCell(d, f.position, f.version)
    IN  IF ~r.ok THEN Raise(f, "ValueError", r.pos)
        ELSE IF NextCell(f.world, f.cell) = <<>>
        THEN [f EXCEPT !.pc = "count", !.position = r.pos]
        ELSE [f EXCEPT !.position = r.pos, !.cell = NextCell(f.world, f.cell)[1]]

CountStepEmptySection(d, f) ==
    IF f.version <= 112 THEN Return(f)
    ELSE LET c == ReadInt32(d, f.position)
         IN  IF ~c.ok THEN [f EXCEPT !.pc = "return", !.position = c.pos]
             ELSE [f EXCEPT !.pc = IF c.val > 0 THEN "records" ELSE "return",
                            !.position = c.pos, !.count = c.val]

\* lines 250-259: the safehouse count, whose failed read is caught on the spot
CountStep(d, f) ==
    IF f.version <= 112 THEN Return(f)
    ELSE LET c == ReadInt32(d, f.position)
         IN  IF ~c.ok THEN Return([f EXCEPT !.position = c.pos, !.error = "ValueError"])
             ELSE [f EXCEPT !.pc = IF c.val > 0 THEN "records" ELSE "return",
                            !.position = c.pos, !.count = c.val]

\* for _ in range(n): read_string(), the strings collected in order
RECURSIVE ReadStrings(_, _, _)
ReadStrings(d, pos, n) ==
    IF n <= 0 THEN [ok |-> TRUE, pos |-> pos, strs |-> <<>>]
    ELSE LET s == ReadString(d, pos)
         IN  IF ~s.ok THEN [ok |-> FALSE, pos |-> s.pos, strs |-> <<>>]
             ELSE LET rest == ReadStrings(d, s.pos, n - 1)
                  IN  [ok |-> rest.ok, pos |-> rest.pos, strs |-> <<s.str>> \o rest.strs]

TileRegionTruncating(x, y, w, h) ==
    MakeRegion(x \div 10, y \div 10, (x + w) \div 10, (y + h) \div 10)

\* lines 286-291: world units to tiles
TileRegion(x, y, w, h) ==
    MakeRegion(x \div 10, y \div 10, (x + w + 9) \div 10, (y + h + 9) \div 10)

\* The reads of one safehouse record, in order.  Each takes the fields read
\* so far (a: ok, the reader's pos, and the locals) and makes the next read;
\* once a read has raised (ok = FALSE) the rest are not made.

\* the locals before the first read of a record at pos
RecordStart(pos) ==
    [ok |-> TRUE, pos |-> pos, x |-> 0, y |-> 0, w |-> 0, h |-> 0,
     owner |-> <<>>, player_count |-> 0, players |-> <<>>, title |-> <<>>,
     player_respawn_count |-> 0]

\* line 263
ReadX(d, a) ==
    LET r == ReadInt32(d, a.pos)
    IN  IF ~a.ok THEN a ELSE [a EXCEPT !.ok = r.ok, !.pos = r.pos, !.x = r.val]

\* line 264
ReadY(d, a) ==
    LET r == ReadInt32(d, a.pos)
    IN  IF ~a.ok THEN a ELSE [a EXCEPT !.ok = r.ok, !.pos = r.pos, !.y = r.val]

\* line 265
ReadW(d, a) ==
    LET r == ReadInt32(d, a.pos)
    IN  IF ~a.ok THEN a ELSE [a EXCEPT !.ok = r.ok, !.pos = r.pos, !.w = r.val]

\* line 266
ReadH(d, a) ==
    LET r == ReadInt32(d, a.pos)
    IN  IF ~a.ok THEN a ELSE [a EXCEPT !.ok = r.ok, !.pos = r.pos, !.h = r.val]

\* line 267
ReadOwner(d, a) ==
    LET r == ReadString(d, a.pos)
    IN  IF ~a.ok THEN a ELSE [a EXCEPT !.ok = r.ok, !.pos = r.pos, !.owner = r.str]

\* line 269
ReadPlayerCount(d, a) ==
    LET r == ReadInt32(d, a.pos)
    IN  IF ~a.ok THEN a ELSE [a EXCEPT !.ok = r.ok, !.pos = r.pos, !.player_count = r.val]

\* lines 270-272
ReadPlayers(d, a) ==
    LET r == ReadStrings(d, a.pos, a.player_count)
    IN  IF ~a.ok THEN a ELSE [a EXCEPT !.ok = r.ok, !.pos = r.pos, !.players = r.strs]

\* line 274
SkipLastVisited(d, a) ==
    LET r == SkipBytes(d, a.pos, 8)
    IN  IF ~a.ok THEN a ELSE [a EXCEPT !.ok = r.ok, !.pos = r.pos]

\* lines 276-278
ReadTitle(d, a, version) ==
    LET r == ReadString(d, a.pos)
    IN  IF ~a.ok THEN a
        ELSE IF version >= 101 THEN [a EXCEPT !.ok = r.ok, !.pos = r.pos, !.title = r.str]
        ELSE [a EXCEPT !.title = a.owner \o DefaultTitleSuffix]

\* lines 280-281
ReadRespawnCount(d, a, version) ==
    LET r == ReadInt32(d, a.pos)
    IN  IF ~a.ok \/ version < 177 THEN a
        ELSE [a EXCEPT !.ok = r.ok, !.pos = r.pos, !.player_respawn_count = r.val]

\* lines 282-283
ReadRespawns(d, a, version) ==
    LET r == ReadStrings(d, a.pos, a.player_respawn_count)
    IN  IF ~a.ok \/ version < 177 THEN a ELSE [a EXCEPT !.ok = r.ok, !.pos = r.pos]

\* lines 263-283: every read of the record at pos
ReadRecordFields(d, pos, version) ==
    ReadRespawns(d,
      ReadRespawnCount(d,
        ReadTitle(d,
          SkipLastVisited(d,
            ReadPlayers(d,
              ReadPlayerCount(d,
                ReadOwner(d,
                  ReadH(d, ReadW(d, ReadY(d, ReadX(d, RecordStart(pos))))))))),
          version),
        version),
      version)

\* lines 286-293: the SafeHouse made of the fields a
MakeSafeHouse(a) ==
    [region |-> TileRegion(a.x, a.y, a.w, a.h), owner |-> a.owner,
     players |-> a.players, title |-> a.title]

AfterFailedRecordContinue(f, pos) ==
    [f EXCEPT !.pc = IF f.idx + 1 < f.count THEN "records" ELSE "return",
              !.position = pos, !.idx = f.idx + 1, !.error = "ValueError"]

\* lines 294-297: except (ValueError, IndexError): break
AfterFailedRecord(f, pos) ==
    [f EXCEPT !.pc = "return", !.position = pos, !.idx = f.idx + 1,
              !.error = "ValueError"]

\* one iteration of the loop of line 261
RecordStep(d, f) ==
    LET a == ReadRecordFields(d, f.position, f.version)
    IN  IF ~a.ok THEN AfterFailedRecord(f, a.pos)
        ELSE [f EXCEPT !.pc = IF f.idx + 1 < f.count THEN "records" ELSE "return",
                       !.position = a.pos, !.idx = f.idx + 1,
                       !.safehouses = Append(f.safehouses, MakeSafeHouse(a)),
                       !.rects = Append(f.rects, <<a.x, a.y, a.w, a.h>>)]

\* line 307
ReturnStep(f) == Return(f)

\* the phase pc names, applied to frame f over the bytes d of file fl
Step(d, fl, f) ==
    CASE f.pc = "open" -> OpenStep(f, fl)
      [] f.pc = "header" -> HeaderStep(d, f)
      [] f.pc = "version" -> VersionStep(f)
      [] f.pc = "bounds" -> BoundsStep(d, f)
      [] f.pc = "cells" -> CellStep(d, f)
      [] f.pc = "count" -> CountStep(d, f)
      [] f.pc = "records" -> RecordStep(d, f)
      [] f.pc = "return" -> ReturnStep(f)

\* the sequences over S of length at most n
RECURSIVE SeqsUpTo(_, _)
SeqsUpTo(S, n) ==
    IF n = 0 THEN {<<>>}
    ELSE LET shorter == SeqsUpTo(S, n - 1)
         IN  shorter \cup {Append(q, b) : q \in {r \in shorter : Len(r) = n - 1}, b \in S}

----------------------------------------------------------------------------
(* The bytes of a map_meta.bin, written field by field as the game (and    *)
(* test_load_safehouses_valid_file) writes them.                           *)

\* struct.pack('>i', v)
PackInt32(v) ==
    <<(v \div 16777216) % 256, (v \div 65536) % 256, (v \div 256) % 256, v % 256>>

\* struct.pack('>H', n)
PackUint16(n) == <<n \div 256, n % 256>>

\* a string as written: its length prefix and its bytes
Str(body) == [prefix |-> Len(body), body |-> body]

PackString(s) == PackUint16(s.prefix) \o s.body

RECURSIVE PackStrings(_)
PackStrings(ss) == IF ss = <<>> THEN <<>> ELSE PackString(Head(ss)) \o PackStrings(Tail(ss))

RECURSIVE Filler(_)
Filler(n) == IF n <= 0 THEN <<>> ELSE <<7>> \o Filler(n - 1)

RECURSIVE Repeat(_, _)
Repeat(bytes, n) == IF n <= 0 THEN <<>> ELSE bytes \o Repeat(bytes, n - 1)

\* one safehouse record: x, y, w, h, owner, players, last visited, title,
\* respawn players
PackRecord(r) ==
    PackInt32(r.x) \o PackInt32(r.y) \o PackInt32(r.w) \o PackInt32(r.h)
    \o PackString(r.owner)
    \o PackInt32(Len(r.players)) \o PackStrings(r.players)
    \o Filler(8)
    \o PackString(r.title)
    \o PackInt32(Len(r.respawns)) \o PackStrings(r.respawns)

RECURSIVE PackRecords(_)
PackRecords(rs) == IF rs = <<>> THEN <<>> ELSE PackRecord(Head(rs)) \o PackRecords(Tail(rs))

\* the cells of the world bounds w, inclusive on both ends
CellCount(w) ==
    (IF w[3] >= w[1] THEN w[3] - w[1] + 1 ELSE 0) * (IF w[4] >= w[2] THEN w[4] - w[2] + 1 ELSE 0)

\* the room and building definitions of one cell (version >= 194 widths)
PackCell(fl) ==
    PackInt32(fl.rooms) \o Repeat(Filler(10), fl.rooms)
    \o PackInt32(fl.buildings) \o Repeat(Filler(19), fl.buildings)

\* the file up to the safehouse count
PackHead(fl) ==
    (IF fl.marker THEN MetaMarker \o PackInt32(fl.version) ELSE <<>>)
    \o PackInt32(fl.world[1]) \o PackInt32(fl.world[2])
    \o PackInt32(fl.world[3]) \o PackInt32(fl.world[4])
    \o Repeat(PackCell(fl), CellCount(fl.world))

\* the whole file
PackFile(fl) == PackHead(fl) \o PackInt32(fl.count) \o PackRecords(fl.records)

\* the offset at which the n-th record of the file ends
RecordEnd(fl, n) == Len(PackHead(fl)) + 4 + Len(PackRecords(SubSeq(fl.records, 1, n)))

----------------------------------------------------------------------------
(* The files load_safehouses is run on.                                    *)

WorldXs == <<-15, -10, -1, 0, 1000>>

WorldYs == <<-25, -1, 0, -10, 2000>>

Widths == <<1, 10, 50, -30>>

Heights == <<11, 1, 30, 10>>

\* "Al", "P", "T", "R"
OwnerAl == Str(<<65, 108>>)

PlayerP == Str(<<80>>)

TitleT == Str(<<84>>)

PlayerR == Str(<<82>>)

\* every world x with every width (and so every world y with every height)
PlainRecords ==
    {[x |-> WorldXs[i], y |-> WorldYs[i], w |-> Widths[j], h |-> Heights[j],
      owner |-> OwnerAl, players |-> <<PlayerP>>, title |-> TitleT, respawns |-> <<>>] :
        i \in DOMAIN WorldXs, j \in DOMAIN Widths}

\* the record of test_load_safehouses_valid_file, with shorter names
TestRecord ==
    [x |-> 1000, y |-> 2000, w |-> 50, h |-> 30,
     owner |-> OwnerAl, players |-> <<PlayerP>>, title |-> TitleT, respawns |-> <<>>]

\* empty strings, no players, one respawn player
BareRecord ==
    [x |-> 290, y |-> -300, w |-> 20, h |-> 10,
     owner |-> Str(<<>>), players |-> <<>>, title |-> Str(<<>>), respawns |-> <<PlayerR>>]

\* an owner with an embedded NUL, a title that is not UTF-8, two players
OddRecord ==
    [x |-> -7, y |-> 13, w |-> 7, h |-> 8,
     owner |-> Str(<<65, 0, 66>>), players |-> <<PlayerP, Str(<<195, 169>>)>>,
     title |-> Str(<<255>>), respawns |-> <<>>]

\* an owner whose length prefix is FF FE
BadPrefixRecord ==
    [x |-> 10, y |-> 20, w |-> 10, h |-> 10,
     owner |-> [prefix |-> 65534, body |-> <<>>], players |-> <<PlayerP>>,
     title |-> TitleT, respawns |-> <<>>]

FewRecords == {BareRecord, OddRecord, BadPrefixRecord}

\* the safehouse sections: none, any single record, several of FewRecords
RecordLists ==
    SeqsUpTo(FewRecords, MaxRecords) \cup {<<r>> : r \in PlainRecords}

\* the header and the skip section: version, world bounds, room and building
\* definitions per cell
Layouts ==
    {[version |-> 194, world |-> <<0, 0, 0, 0>>, rooms |-> 0, buildings |-> 0],
     [version |-> 194, world |-> <<-1, 0, -1, 1>>, rooms |-> 1, buildings |-> 1],
     [version |-> 195, world |-> <<0, 0, -1, 0>>, rooms |-> 0, buildings |-> 0]}

\* version >= 194 files; the count says how many records follow, or one more
ModernFiles ==
    {[exists |-> TRUE, readable |-> TRUE, marker |-> TRUE, version |-> l.version,
      world |-> l.world, rooms |-> l.rooms, buildings |-> l.buildings,
      count |-> Len(rs) + extra, records |-> rs] :
        l \in Layouts, rs \in RecordLists, extra \in {0, 1}}

\* files that are older than 194, unmarked, missing or unreadable
OtherFiles ==
    {[exists |-> e[1], readable |-> e[2], marker |-> e[3], version |-> e[4],
      world |-> <<0, 0, 0, 0>>, rooms |-> 0, buildings |-> 0,
      count |-> 1, records |-> <<TestRecord>>] :
        e \in {<<FALSE, FALSE, TRUE, 194>>, <<TRUE, FALSE, TRUE, 194>>,
               <<TRUE, TRUE, TRUE, 193>>, <<TRUE, TRUE, TRUE, 112>>,
               <<TRUE, TRUE, TRUE, -1>>, <<TRUE, TRUE, FALSE, 194>>}}

\* a file whose world has 2 x 2 cells, each with 2 room and 1 building
\* definitions, and no safehouse
GridFile ==
    [exists |-> TRUE, readable |-> TRUE, marker |-> TRUE, version |-> 194,
     world |-> <<0, -1, 1, 0>>, rooms |-> 2, buildings |-> 1,
     count |-> 0, records |-> <<>>]

MetaFiles == ModernFiles \cup OtherFiles \cup {GridFile}

\* every string was written with its true length
WellFormed(fl) ==
    \A i \in DOMAIN fl.records :
        LET r == fl.records[i]
        IN  /\ r.owner.prefix = Len(r.owner.body)
            /\ r.title.prefix = Len(r.title.body)
            /\ \A j \in DOMAIN r.players : r.players[j].prefix = Len(r.players[j].body)
            /\ \A j \in DOMAIN r.respawns : r.respawns[j].prefix = Len(r.respawns[j].body)

NoFile ==
    [exists |-> FALSE, readable |-> FALSE, marker |-> FALSE, version |-> 0,
     world |-> <<0, 0, 0, 0>>, rooms |-> 0, buildings |-> 0, count |-> 0,
     records |-> <<>>]

\* the frame while load_safehouses has not been called
NotCalled == [EntryFrame EXCEPT !.pc = "idle", !.outcome = "idle"]

DecoderIdle ==
    /\ file = NoFile
    /\ ls = NotCalled

----------------------------------------------------------------------------
(* coordinate_to_filename, _delete_file_if_exists, delete_files_in_area.   *)
(* A file name is <<kind, a, b>> for kind_a_b.bin; a path (and the         *)
(* file_key printed for it) is <<directory, name, a, b>>:                  *)
(*   <<"root", "map", x, y>>            map_x_y.bin                        *)
(*   <<"map", "tile", x, y>>            map/x/y                            *)
(*   <<"map", "tile.bin", x, y>>        map/x/y.bin                        *)
(*   <<"root", "chunkdata", cx, cy>>    chunkdata_cx_cy.bin                *)
(*   <<"chunkdata", "chunkdata", cx, cy>>  chunkdata/chunkdata_cx_cy.bin   *)
(*   <<"root", "zpop", cx, cy>>         zpop_cx_cy.bin                     *)
(*   <<"zpop", "zpop", cx, cy>>         zpop/zpop_cx_cy.bin                *)
(*   <<"chunkdata", "zpop", cx, cy>>    chunkdata/zpop_cx_cy.bin           *)

\* tiles per chunk and axis (lines 325-330)
ChunkSize == 30

CoordinateToFilenameTruncating(x, y, filetype) ==
    IF filetype = "M" THEN <<"map", x, y>>
    ELSE IF filetype = "C"
    THEN <<"chunkdata", IF x >= 0 THEN x \div ChunkSize ELSE -((-x) \div ChunkSize),
           IF y >= 0 THEN y \div ChunkSize ELSE -((-y) \div ChunkSize)>>
    ELSE <<"zpop", IF x >= 0 THEN x \div ChunkSize ELSE -((-x) \div ChunkSize),
           IF y >= 0 THEN y \div ChunkSize ELSE -((-y) \div ChunkSize)>>

\* coordinate_to_filename
CoordinateToFilename(x, y, filetype) ==
    IF filetype = "M" THEN <<"map", x, y>>
    ELSE IF filetype = "C" THEN <<"chunkdata", x \div ChunkSize, y \div ChunkSize>>
    ELSE <<"zpop", x \div ChunkSize, y \div ChunkSize>>

\* lines 452-475: the path tried for filename, the legacy one first; xy is
\* <<x, y>> when the caller passed the coordinate and <<>> when it did not
ResolvePath(dsk, filename, xy) ==
    LET legacy == <<"root", filename[1], filename[2], filename[3]>>
    IN  IF legacy \in dsk THEN legacy
        ELSE IF xy # <<>> /\ filename[1] = "map" THEN <<"map", "tile", xy[1], xy[2]>>
        ELSE IF filename[1] = "chunkdata"
        THEN <<"chunkdata", "chunkdata", filename[2], filename[3]>>
        ELSE IF filename[1] = "zpop"
        THEN (IF <<"zpop", "zpop", filename[2], filename[3]>> \in dsk
              THEN <<"zpop", "zpop", filename[2], filename[3]>>
              ELSE <<"chunkdata", "zpop", filename[2], filename[3]>>)
        ELSE legacy

NeverAlreadyDeleted(key, deleted_files) == FALSE

\* file_key in deleted_files (line 477)
AlreadyDeleted(key, deleted_files) == key \in deleted_files

DeleteFileIgnoringDryRun(dsk, lck, filename, deleted_files, dry_run, xy) ==
    LET path == ResolvePath(dsk, filename, xy)
    IN  IF path \in dsk /\ ~AlreadyDeleted(path, deleted_files)
        THEN [acted |-> TRUE, key |-> path,
              printed |-> IF dry_run THEN "Would delete"
                          ELSE IF path \in lck THEN "Error deleting" ELSE "Deleted",
              disk |-> IF path \in lck THEN dsk ELSE dsk \ {path},
              deleted_files |-> deleted_files \cup {path}]
        ELSE [acted |-> FALSE, key |-> path, printed |-> "", disk |-> dsk,
              deleted_files |-> deleted_files]

\* _delete_file_if_exists: what it returns (acted), what it prints, the
\* files that exist afterwards and the new deleted_files
DeleteFileIfExists(dsk, lck, filename, deleted_files, dry_run, xy) ==
    LET path == ResolvePath(dsk, filename, xy)
    IN  IF path \in dsk /\ ~AlreadyDeleted(path, deleted_files)
        THEN [acted |-> TRUE, key |-> path,
              printed |-> IF dry_run THEN "Would delete"
                          ELSE IF path \in lck THEN "Error deleting" ELSE "Deleted",
              disk |-> IF dry_run \/ path \in lck THEN dsk ELSE dsk \ {path},
              deleted_files |-> deleted_files \cup {path}]
        ELSE [acted |-> FALSE, key |-> path, printed |-> "", disk |-> dsk,
              deleted_files |-> deleted_files]

ExcludedRegionsUnpadded(safehouses, pad) ==
    [i \in 1..Len(safehouses) |-> safehouses[i].region]

\* [sh.region.expand(safehouse_padding) for sh in safehouses] (line 531)
ExcludedRegions(safehouses, pad) ==
    [i \in 1..Len(safehouses) |-> Expand(safehouses[i].region, pad)]

\* lines 547-552: the linear scan of the excluded regions
IsProtected(excluded_regions, x, y) ==
    \E i \in 1..Len(excluded_regions) : ContainsPoint(excluded_regions[i], x, y)

CheckedIfUnprotected(n, is_protected) == IF is_protected THEN n ELSE n + 1

\* files_checked += 1 (line 544), made before the protection check
Checked(n, is_protected) == n + 1

\* the frame when delete_files_in_area is entered
SweepEntry ==
    [pc |-> "start", x |-> 0, y |-> 0, excluded_regions |-> <<>>,
     files_checked |-> 0, files_deleted |-> 0, files_protected |-> 0,
     deleted_files |-> {}, result |-> <<>>]

\* the loops of lines 542-543 have a first coordinate
HasFirst(a) == a.start_x < a.end_x /\ a.start_y < a.end_y

\* the loops of lines 542-543 have a coordinate after (x, y)
HasNext(a, x, y) == y + 1 < a.end_y \/ x + 1 < a.end_x

NextX(a, x, y) == IF y + 1 < a.end_y THEN x ELSE x + 1

NextY(a, x, y) == IF y + 1 < a.end_y THEN y + 1 ELSE a.start_y

AdvanceYOuter(a, f) ==
    IF f.x + 1 < a.end_x THEN [f EXCEPT !.pc = "visit", !.x = f.x + 1]
    ELSE IF f.y + 1 < a.end_y THEN [f EXCEPT !.pc = "visit", !.x = a.start_x, !.y = f.y + 1]
    ELSE [f EXCEPT !.pc = "return"]

\* the frame as the loops go on from (f.x, f.y)
Advance(a, f) ==
    IF HasNext(a, f.x, f.y)
    THEN [f EXCEPT !.pc = "visit", !.x = NextX(a, f.x, f.y), !.y = NextY(a, f.x, f.y)]
    ELSE [f EXCEPT !.pc = "return"]

\* lines 523-528: the category check, then the call of load_safehouses
\* when protection is on
StartStep(a, f) ==
    IF ~(a.delete_map_data \/ a.delete_chunk_data \/ a.delete_zpop_data)
    THEN [f EXCEPT !.pc = "done", !.result = <<0, 0, 0>>]
    ELSE IF a.safehouse_protection THEN [f EXCEPT !.pc = "load"]
    ELSE IF HasFirst(a) THEN [f EXCEPT !.pc = "visit", !.x = a.start_x, !.y = a.start_y]
    ELSE [f EXCEPT !.pc = "return"]

\* lines 529-543: load_safehouses returned safehouses; the excluded regions,
\* the counters, the first coordinate
LoadedStep(a, f, safehouses) ==
    IF HasFirst(a)
    THEN [f EXCEPT !.pc = "visit", !.x = a.start_x, !.y = a.start_y,
                   !.excluded_regions = ExcludedRegions(safehouses, a.safehouse_padding)]
    ELSE [f EXCEPT !.pc = "return",
                   !.excluded_regions = ExcludedRegions(safehouses, a.safehouse_padding)]

\* lines 544-556: count the coordinate, skip it when it is protected
VisitStep(a, f) ==
    LET is_protected == IsProtected(f.excluded_regions, f.x, f.y)
        g == [f EXCEPT !.files_checked = Checked(f.files_checked, is_protected)]
    IN  IF is_protected
        THEN Advance(a, [g EXCEPT !.files_protected = g.files_protected + 1])
        ELSE [g EXCEPT !.pc = "map"]

\* the frame after a call of _delete_file_if_exists that returned r
Counted(f, r) ==
    [f EXCEPT !.files_deleted = IF r.acted THEN f.files_deleted + 1 ELSE f.files_deleted,
              !.deleted_files = r.deleted_files]

\* the entry of calls for a call at (x, y) that returned r
CallEntry(x, y, filetype, r) ==
    [x |-> x, y |-> y, filetype |-> filetype, key |-> r.key, acted |-> r.acted,
     printed |-> r.printed]

\* the arguments of a sweep that is not under way
NoArgs ==
    [start_x |-> 0, start_y |-> 0, end_x |-> 0, end_y |-> 0,
     delete_map_data |-> FALSE, delete_chunk_data |-> FALSE, delete_zpop_data |-> FALSE,
     dry_run |-> FALSE, safehouse_protection |-> FALSE, safehouse_padding |-> 0]

SweepIdle ==
    /\ args = NoArgs
    /\ disk = {}
    /\ disk0 = {}
    /\ locked = {}
    /\ sw = SweepEntry
    /\ visits = <<>>
    /\ calls = <<>>

----------------------------------------------------------------------------
(* SpecReader: a BinaryReader over an arbitrary buffer, called in any      *)
(* order.                                                                  *)

\* byte values that give length prefixes 0, 2, 255, -1, -254, -256, ...
ReaderBytes == {0, 2, 255}

\* skip_bytes is only ever called with these counts (lines 223-248, 274)
SkipCounts == {1, 2, 4, 8}

\* read_string is only ever called with this explicit length (line 197)
ExplicitLengths == {4}

NoCall == [op |-> "none", ok |-> TRUE, before |-> 0, size |-> 0,
           prefixOk |-> FALSE, length |-> 0]

IdleRegion == [from_x |-> 0, from_y |-> 0, to_x |-> 0, to_y |-> 0]

RegionIdle ==
    /\ region = IdleRegion
    /\ padding = 0
    /\ point = <<0, 0>>
    /\ expanded = IdleRegion
    /\ contained = FALSE
    /\ rpc = "idle"

\* BinaryReader.__init__
ReaderInit ==
    /\ data \in SeqsUpTo(ReaderBytes, MaxBufLen)
    /\ position = 0
    /\ marked_position = <<>>
    /\ last = NoCall
    /\ RegionIdle
    /\ DecoderIdle
    /\ SweepIdle

Explored == position >= -MaxBack

CallMark ==
    /\ Explored
    /\ marked_position' = <<position>>
    /\ last' = [NoCall EXCEPT !.op = "mark", !.before = position]
    /\ UNCHANGED <<data, position, notReader>>

CallReset ==
    /\ Explored
    /\ position' = ResetPosition(marked_position)
    /\ marked_position' = <<>>
    /\ last' = [NoCall EXCEPT !.op = "reset", !.before = position]
    /\ UNCHANGED <<data, notReader>>

CallReadInt8 ==
    /\ Explored
    /\ position' = ReadInt8(data, position).pos
    /\ last' = [NoCall EXCEPT !.op = "read_int8", !.ok = ReadInt8(data, position).ok,
                              !.before = position, !.size = 1]
    /\ UNCHANGED <<data, marked_position, notReader>>

CallReadInt16 ==
    /\ Explored
    /\ position' = ReadInt16(data, position).pos
    /\ last' = [NoCall EXCEPT !.op = "read_int16", !.ok = ReadInt16(data, position).ok,
                              !.before = position, !.size = 2]
    /\ UNCHANGED <<data, marked_position, notReader>>

CallReadInt32 ==
    /\ Explored
    /\ position' = ReadInt32(data, position).pos
    /\ last' = [NoCall EXCEPT !.op = "read_int32", !.ok = ReadInt32(data, position).ok,
                              !.before = position, !.size = 4]
    /\ UNCHANGED <<data, marked_position, notReader>>

CallReadString ==
    /\ Explored
    /\ position' = ReadString(data, position).pos
    /\ last' = [op |-> "read_string", ok |-> ReadString(data, position).ok,
                before |-> position, size |-> 2,
                prefixOk |-> ReadLengthPrefix(data, position).ok,
                length |-> ReadString(data, position).len]
    /\ UNCHANGED <<data, marked_position, notReader>>

CallReadStringOfLength ==
    /\ Explored
    /\ \E n \in ExplicitLengths :
        /\ position' = ReadStringOfLength(data, position, n).pos
        /\ last' = [NoCall EXCEPT !.op = "read_string_n",
                                  !.ok = ReadStringOfLength(data, position, n).ok,
                                  !.before = position, !.size = n]
    /\ UNCHANGED <<data, marked_position, notReader>>

CallSkipBytes ==
    /\ Explored
    /\ \E n \in SkipCounts :
        /\ position' = SkipBytes(data, position, n).pos
        /\ last' = [NoCall EXCEPT !.op = "skip_bytes",
                                  !.ok = SkipBytes(data, position, n).ok,
                                  !.before = position, !.size = n]
    /\ UNCHANGED <<data, marked_position, notReader>>

ReaderNext ==
    \/ CallMark
    \/ CallReset
    \/ CallReadInt8
    \/ CallReadInt16
    \/ CallReadInt32
    \/ CallReadString
    \/ CallReadStringOfLength
    \/ CallSkipBytes

SpecReader == ReaderInit /\ [][ReaderNext]_vars

----------------------------------------------------------------------------
(* SpecRegion: Region(a, b, c, d).expand(p).contains_point(x, y).          *)

ReaderIdle ==
    /\ data = <<>>
    /\ position = 0
    /\ marked_position = <<>>
    /\ last = NoCall

Corners == (-MaxCoord)..MaxCoord

Paddings == (-MaxPad)..MaxPad

Points == (-(MaxCoord + MaxPad + 1))..(MaxCoord + MaxPad + 1)

\* Region.__init__
RegionInit ==
    /\ \E a \in Corners, b \in Corners, c \in Corners, d \in Corners :
        region = MakeRegion(a, b, c, d)
    /\ padding \in Paddings
    /\ point = <<0, 0>>
    /\ expanded = IdleRegion
    /\ contained = FALSE
    /\ rpc = "built"
    /\ ReaderIdle
    /\ DecoderIdle
    /\ SweepIdle

CallExpand ==
    /\ rpc = "built"
    /\ expanded' = Expand(region, padding)
    /\ rpc' = "expanded"
    /\ UNCHANGED <<region, padding, point, contained, notRegion>>

CallContainsPoint ==
    /\ rpc = "expanded"
    /\ \E x \in Points, y \in Points :
        /\ point' = <<x, y>>
        /\ contained' = ContainsPoint(expanded, x, y)
    /\ rpc' = "tested"
    /\ UNCHANGED <<region, padding, expanded, notRegion>>

RegionNext == CallExpand \/ CallContainsPoint

SpecRegion == RegionInit /\ [][RegionNext]_vars

----------------------------------------------------------------------------
(* SpecDecoder: load_safehouses on a map_meta.bin cut at any offset.       *)

DecoderInit ==
    /\ \E fl \in MetaFiles :
        /\ file = fl
        /\ \E k \in 0..Len(PackFile(fl)) :
            /\ (fl.exists /\ fl.readable) \/ k = 0
            /\ data = SubSeq(PackFile(fl), 1, k)
    /\ ls = EntryFrame
    /\ position = 0
    /\ marked_position = <<>>
    /\ last = NoCall
    /\ RegionIdle
    /\ SweepIdle

LoadOpen ==
    /\ ls.pc = "open"
    /\ ls' = OpenStep(ls, file)
    /\ UNCHANGED <<data, file, notDecoder>>

LoadHeader ==
    /\ ls.pc = "header"
    /\ ls' = HeaderStep(data, ls)
    /\ UNCHANGED <<data, file, notDecoder>>

LoadVersion ==
    /\ ls.pc = "version"
    /\ ls' = VersionStep(ls)
    /\ UNCHANGED <<data, file, notDecoder>>

LoadBounds ==
    /\ ls.pc = "bounds"
    /\ ls' = BoundsStep(data, ls)
    /\ UNCHANGED <<data, file, notDecoder>>

LoadCell ==
    /\ ls.pc = "cells"
    /\ ls' = CellStep(data, ls)
    /\ UNCHANGED <<data, file, notDecoder>>

LoadCount ==
    /\ ls.pc = "count"
    /\ ls' = CountStep(data, ls)
    /\ UNCHANGED <<data, file, notDecoder>>

LoadRecord ==
    /\ ls.pc = "records"
    /\ ls' = RecordStep(data, ls)
    /\ UNCHANGED <<data, file, notDecoder>>

LoadReturn ==
    /\ ls.pc = "return"
    /\ ls' = ReturnStep(ls)
    /\ UNCHANGED <<data, file, notDecoder>>

DecoderNext ==
    \/ LoadOpen
    \/ LoadHeader
    \/ LoadVersion
    \/ LoadBounds
    \/ LoadCell
    \/ LoadCount
    \/ LoadRecord
    \/ LoadReturn

SpecDecoder == DecoderInit /\ [][DecoderNext]_vars

----------------------------------------------------------------------------
(* Spec: delete_files_in_area over a save directory.                       *)

\* the tiles and chunks that have files in the save directory
TileXs == (-2)..MaxSpan

TileYs == 27..(28 + MaxSpan)

ChunkKeys == {<<x \div ChunkSize, y \div ChunkSize>> : x \in TileXs, y \in TileYs}

\* the flat layout: map_x_y.bin, chunkdata_cx_cy.bin, zpop_cx_cy.bin
LegacyFiles ==
    {<<"root", "map", x, y>> : x \in TileXs, y \in TileYs}
    \cup {<<"root", "chunkdata", c[1], c[2]>> : c \in ChunkKeys}
    \cup {<<"root", "zpop", c[1], c[2]>> : c \in ChunkKeys}

\* the nested layout: map/x/y, chunkdata/chunkdata_cx_cy.bin, zpop/zpop_cx_cy.bin
NestedFiles ==
    {<<"map", "tile", x, y>> : x \in TileXs, y \in TileYs}
    \cup {<<"chunkdata", "chunkdata", c[1], c[2]>> : c \in ChunkKeys}
    \cup {<<"zpop", "zpop", c[1], c[2]>> : c \in ChunkKeys}

\* the nested layout with map/x/y.bin and chunkdata/zpop_cx_cy.bin
NestedBinFiles ==
    {<<"map", "tile.bin", x, y>> : x \in TileXs, y \in TileYs}
    \cup {<<"chunkdata", "chunkdata", c[1], c[2]>> : c \in ChunkKeys}
    \cup {<<"chunkdata", "zpop", c[1], c[2]>> : c \in ChunkKeys}

\* a directory with a few files of each layout
SparseFiles ==
    {<<"root", "map", 0, 29>>, <<"map", "tile", -1, 29>>, <<"map", "tile", 0, 28>>,
     <<"chunkdata", "chunkdata", 0, 0>>, <<"root", "chunkdata", -1, 0>>,
     <<"zpop", "zpop", -1, 0>>, <<"chunkdata", "zpop", 0, 0>>}

Disks ==
    {LegacyFiles, NestedFiles, NestedBinFiles,
     LegacyFiles \cup NestedFiles \cup NestedBinFiles, SparseFiles}

\* a safehouse on tile (0, 29)
HouseRecord ==
    [x |-> 0, y |-> 290, w |-> 10, h |-> 10,
     owner |-> OwnerAl, players |-> <<PlayerP>>, title |-> TitleT, respawns |-> <<>>]

HouseFile ==
    [exists |-> TRUE, readable |-> TRUE, marker |-> TRUE, version |-> 194,
     world |-> <<0, 0, 0, 0>>, rooms |-> 0, buildings |-> 0,
     count |-> 1, records |-> <<HouseRecord>>]

\* the map_meta.bin of the save directory: none, one safehouse, or the same
\* file with its last byte missing
SweepMetas ==
    {[file |-> NoFile, data |-> <<>>],
     [file |-> HouseFile, data |-> PackFile(HouseFile)],
     [file |-> HouseFile, data |-> SubSeq(PackFile(HouseFile), 1, Len(PackFile(HouseFile)) - 1)]}

\* the rectangles: across the border of chunk columns -1 and 0, with up to
\* MaxSpan tiles of one chunk in a column; some are empty or inverted
SweepArgs ==
    {[start_x |-> sx, start_y |-> sy, end_x |-> ex, end_y |-> ey,
      delete_map_data |-> dm, delete_chunk_data |-> dc, delete_zpop_data |-> dz,
      dry_run |-> dr, safehouse_protection |-> sp, safehouse_padding |-> pad] :
        sx \in (-1)..0, ex \in (-1)..(MaxSpan - 1),
        sy \in {28}, ey \in 28..(28 + MaxSpan),
        dm \in BOOLEAN, dc \in BOOLEAN, dz \in BOOLEAN,
        dr \in BOOLEAN, sp \in BOOLEAN, pad \in 0..MaxSweepPad}

Init ==
    /\ args \in SweepArgs
    /\ disk \in Disks
    /\ disk0 = disk
    /\ locked \in {{}, disk}
    /\ args.dry_run => locked = {}
    /\ args.safehouse_protection \/ args.safehouse_padding = 0
    /\ \E mf \in SweepMetas :
        /\ args.safehouse_protection \/ mf.file = NoFile
        /\ file = mf.file
        /\ data = mf.data
    /\ sw = SweepEntry
    /\ visits = <<>>
    /\ calls = <<>>
    /\ ls = NotCalled
    /\ position = 0
    /\ marked_position = <<>>
    /\ last = NoCall
    /\ RegionIdle

\* the call of _delete_file_if_exists for category filetype at (sw.x, sw.y)
DeleteCall(filetype) ==
    DeleteFileIfExists(disk, locked, CoordinateToFilename(sw.x, sw.y, filetype),
                       sw.deleted_files, args.dry_run,
                       IF filetype = "M" THEN <<sw.x, sw.y>> ELSE <<>>)

SweepStart ==
    /\ sw.pc = "start"
    /\ sw' = StartStep(args, sw)
    /\ ls' = IF sw'.pc = "load" THEN EntryFrame ELSE ls
    /\ UNCHANGED <<args, disk, disk0, locked, visits, calls, readerVars, regionVars, file>>

\* load_safehouses has returned to line 529
SweepLoaded ==
    /\ sw.pc = "load"
    /\ ls.pc = "done"
    /\ sw' = LoadedStep(args, sw, ls.result)
    /\ UNCHANGED <<args, disk, disk0, locked, visits, calls, notSweep>>

SweepVisit ==
    /\ sw.pc = "visit"
    /\ sw' = VisitStep(args, sw)
    /\ visits' = Append(visits, <<sw.x, sw.y>>)
    /\ UNCHANGED <<args, disk, disk0, locked, calls, notSweep>>

\* lines 558-562
SweepMap ==
    /\ sw.pc = "map"
    /\ IF args.delete_map_data
       THEN /\ sw' = [Counted(sw, DeleteCall("M")) EXCEPT !.pc = "chunk"]
            /\ disk' = DeleteCall("M").disk
            /\ calls' = Append(calls, CallEntry(sw.x, sw.y, "M", DeleteCall("M")))
       ELSE /\ sw' = [sw EXCEPT !.pc = "chunk"]
            /\ UNCHANGED <<disk, calls>>
    /\ UNCHANGED <<args, disk0, locked, visits, notSweep>>

\* lines 564-568
SweepChunk ==
    /\ sw.pc = "chunk"
    /\ IF args.delete_chunk_data
       THEN /\ sw' = [Counted(sw, DeleteCall("C")) EXCEPT !.pc = "zpop"]
            /\ disk' = DeleteCall("C").disk
            /\ calls' = Append(calls, CallEntry(sw.x, sw.y, "C", DeleteCall("C")))
       ELSE /\ sw' = [sw EXCEPT !.pc = "zpop"]
            /\ UNCHANGED <<disk, calls>>
    /\ UNCHANGED <<args, disk0, locked, visits, notSweep>>

\* lines 570-574, and on to the next coordinate
SweepZpop ==
    /\ sw.pc = "zpop"
    /\ IF args.delete_zpop_data
       THEN /\ sw' = Advance(args, Counted(sw, DeleteCall("Z")))
            /\ disk' = DeleteCall("Z").disk
            /\ calls' = Append(calls, CallEntry(sw.x, sw.y, "Z", DeleteCall("Z")))
       ELSE /\ sw' = Advance(args, sw)
            /\ UNCHANGED <<disk, calls>>
    /\ UNCHANGED <<args, disk0, locked, visits, notSweep>>

\* line 576
SweepReturn ==
    /\ sw.pc = "return"
    /\ sw' = [sw EXCEPT !.pc = "done",
                        !.result = <<sw.files_checked, sw.files_deleted, sw.files_protected>>]
    /\ UNCHANGED <<args, disk, disk0, locked, visits, calls, notSweep>>

Next ==
    \/ SweepStart
    \/ DecoderNext
    \/ SweepLoaded
    \/ SweepVisit
    \/ SweepMap
    \/ SweepChunk
    \/ SweepZpop
    \/ SweepReturn

Spec == Init /\ [][Next]_vars

----------------------------------------------------------------------------
(* Claims about BinaryReader (SpecReader).                                 *)

\* C5: the 16-bit length prefix of a length-prefixed string is decoded as an
\* unsigned big-endian value: whenever read_string has read its prefix, the
\* length it goes on with is the unsigned value of the two prefix bytes
\* (65535 for FF FF), never a negative number.
C5_LengthPrefixIsUnsigned ==
    (last.op = "read_string" /\ last.prefixOk)
        => (last.length = UnpackUint16(data, last.before) /\ last.length >= 0)

\* the call asked for bytes beyond the end of the buffer
ReadPastEnd ==
    IF last.op = "read_string"
    THEN \/ last.before + 2 > Len(data)
         \/ last.prefixOk /\ last.before + 2 + last.length > Len(data)
    ELSE /\ last.op \in {"read_int8", "read_int16", "read_int32", "read_string_n", "skip_bytes"}
         /\ last.before + last.size > Len(data)

\* C6: every read operation (read_int8/16/32, read_string with or without an
\* explicit length, skip_bytes) that would read past the end of the buffer
\* fails and leaves the read position exactly as it was before the call.
C6_FailedReadKeepsPosition ==
    ReadPastEnd => (~last.ok /\ position = last.before)

----------------------------------------------------------------------------
(* Claims about load_safehouses (SpecDecoder).                             *)

\* C2: load_safehouses never raises to its caller: whatever the bytes of
\* map_meta.bin (empty, cut at any offset, any version, counts and string
\* lengths), no phase ends in an error state, every phase but the last has
\* a next one, and the function ends by returning a list of the safehouses
\* it built (possibly none).
C2_NeverRaises ==
    /\ ls.outcome # "raised"
    /\ ls.pc # "done" => (ls.outcome = "running" /\ ls.pc \in Phases)
    /\ ls.pc = "done" => (ls.outcome = "returned" /\ ls.result \in {<<>>, ls.safehouses})

\* a read hit the end of a file that was there, and the call still returned
C2_Witness ==
    /\ ls.pc = "done"
    /\ ls.error = "ValueError"
    /\ ls.outcome = "returned"
    /\ Len(data) > 0

\* the file is a version >= 194 file whose safehouse count was read
CountWasRead ==
    /\ file.exists /\ file.readable /\ file.marker /\ file.version >= 194
    /\ Len(data) >= Len(PackHead(file)) + 4

\* the records of the file that lie wholly inside the bytes that are left
CompleteRecords ==
    CHOOSE n \in 0..Len(file.records) :
        /\ RecordEnd(file, n) <= Len(data)
        /\ n < Len(file.records) => RecordEnd(file, n + 1) > Len(data)

C8_TileRegionCovers ==
    \A i \in 1..Len(ls.safehouses) :
        LET x == ls.rects[i][1]
            y == ls.rects[i][2]
            w == ls.rects[i][3]
            h == ls.rects[i][4]
            g == ls.safehouses[i].region
        IN  /\ g.from_x = x \div 10 /\ g.from_y = y \div 10
            /\ g.to_x = (x + w + 9) \div 10 /\ g.to_y = (y + h + 9) \div 10
            /\ (w > 0 /\ h > 0) =>
                  /\ \A u \in x..(x + w - 1) : g.from_x <= u \div 10 /\ u \div 10 < g.to_x
                  /\ \A v \in y..(y + h - 1) : g.from_y <= v \div 10 /\ v \div 10 < g.to_y
                  /\ ContainsPoint(g, x \div 10, y \div 10)
                  /\ ContainsPoint(g, (x + w - 1) \div 10, (y + h - 1) \div 10)

\* a record at negative world coordinates that are no multiples of 10
C8_Witness ==
    \E i \in 1..Len(ls.safehouses) :
        /\ ls.rects[i][1] < 0 /\ ls.rects[i][1] % 10 # 0
        /\ ls.rects[i][2] < 0 /\ ls.rects[i][2] % 10 # 0
        /\ ls.rects[i][3] > 0 /\ ls.rects[i][4] > 0
        /\ (ls.rects[i][1] + ls.rects[i][3]) % 10 # 0

----------------------------------------------------------------------------
(* Claims about Region (SpecRegion).                                       *)

\* C9: Region(a,b,c,d).expand(p).contains_point(x,y) is true if and only if
\* a-p <= x < c+p and b-p <= y < d+p; with p = 0 expand changes nothing.
C9_ExpandThenContains ==
    rpc = "tested" =>
        /\ contained <=> (/\ region.from_x - padding <= point[1]
                          /\ point[1] < region.to_x + padding
                          /\ region.from_y - padding <= point[2]
                          /\ point[2] < region.to_y + padding)
        /\ padding = 0 => (expanded = region
                           /\ contained = ContainsPoint(region, point[1], point[2]))

\* a point that only the padding brings into the region
C9_Witness ==
    /\ rpc = "tested"
    /\ padding > 0
    /\ contained
    /\ ~ContainsPoint(region, point[1], point[2])

\* C10 as claimed: for a negative-width region (to_x < from_x),
\* expand(p).contains_point(x, y) is false for every point and every padding.
C10_NegativeWidthNeverContains ==
    (rpc = "tested" /\ region.to_x < region.from_x) => ~contained

\* C10 as amended: for a negative-width region (to_x < from_x),
\* expand(p).contains_point(x, y) is false for every point whenever
\* 2*p <= from_x - to_x (so for every p <= 0); a larger padding turns the
\* region into one of positive width.
C10_NegativeWidthSmallPadding ==
    (/\ rpc = "tested"
     /\ region.to_x < region.from_x
     /\ 2 * padding <= region.from_x - region.to_x) => ~contained

\* a negative-width region, padded, tested at a point its y range holds
C10_Witness ==
    /\ rpc = "tested"
    /\ region.to_x < region.from_x
    /\ padding > 0
    /\ 2 * padding <= region.from_x - region.to_x
    /\ expanded.from_y <= point[2]
    /\ point[2] < expanded.to_y
    /\ ~contained

----------------------------------------------------------------------------
(* Claims about delete_files_in_area (Spec).                               *)

\* load_safehouses has returned to a sweep that protects safehouses
Loaded == args.safehouse_protection /\ sw.pc \notin {"start", "load"} /\ ls.pc = "done"

\* (x, y) lies in the region of a decoded safehouse pushed out by the padding
InPaddedSafehouse(x, y) ==
    \E i \in 1..Len(ls.result) :
        /\ ls.result[i].region.from_x - args.safehouse_padding <= x
        /\ x <= ls.result[i].region.to_x + args.safehouse_padding - 1
        /\ ls.result[i].region.from_y - args.safehouse_padding <= y
        /\ y <= ls.result[i].region.to_y + args.safehouse_padding - 1

\* the calls of _delete_file_if_exists that went on to unlink or to report
Acting == {i \in 1..Len(calls) : calls[i].acted}

\* the coordinates of the rectangle
Swept == {<<x, y>> : x \in args.start_x..(args.end_x - 1), y \in args.start_y..(args.end_y - 1)}

\* C1: with safehouse protection on, no coordinate inside a safehouse region
\* expanded by the padding is ever handed to _delete_file_if_exists, for any
\* category; files_protected is the number of such coordinates reached so
\* far (one each), and files_deleted counts only calls that acted, none of
\* which is at such a coordinate
C1_ProtectedNeverDeleted ==
    Loaded =>
        /\ \A i \in 1..Len(calls) : ~InPaddedSafehouse(calls[i].x, calls[i].y)
        /\ sw.files_protected =
              Cardinality({i \in 1..Len(visits) : InPaddedSafehouse(visits[i][1], visits[i][2])})
        /\ sw.files_deleted = Cardinality(Acting)

\* a finished sweep that skipped a padded coordinate whose files were there,
\* next to an unprotected coordinate whose files it deleted
C1_Witness ==
    /\ Loaded
    /\ sw.pc = "done"
    /\ args.safehouse_padding = 0
    /\ args.delete_map_data /\ args.delete_chunk_data /\ args.delete_zpop_data
    /\ sw.files_protected = 1
    /\ sw.files_deleted >= 3
    /\ \E i \in 1..Len(visits) :
        /\ InPaddedSafehouse(visits[i][1], visits[i][2])
        /\ <<"root", "map", visits[i][1], visits[i][2]>> \in disk

\* the width and the height of the rectangle, 0 when a range is inverted
Extent(from, to) == IF to > from THEN to - from ELSE 0

AnyCategory == args.delete_map_data \/ args.delete_chunk_data \/ args.delete_zpop_data

\* C3 as stated: on a rectangle [sx,ex) x [sy,ey) the returned files_checked
\* is (ex-sx)*(ey-sy) whatever categories are selected
C3_CheckedIsArea ==
    (sw.pc = "done" /\ args.start_x <= args.end_x /\ args.start_y <= args.end_y)
        => sw.result[1] = (args.end_x - args.start_x) * (args.end_y - args.start_y)

\* C3, amended: when at least one category is selected the returned
\* files_checked is the number of coordinates of the rectangle, whatever the
\* categories and however many coordinates are protected; when no category
\* is selected the function returns (0, 0, 0) without sweeping
C3_CheckedIsAreaWhenSelected ==
    sw.pc = "done" =>
        IF AnyCategory
        THEN /\ sw.result[1] = Extent(args.start_x, args.end_x) * Extent(args.start_y, args.end_y)
             /\ sw.result[1] = Len(visits)
             /\ sw.result[1] = Cardinality(Swept)
        ELSE sw.result = <<0, 0, 0>> /\ visits = <<>>

\* a finished sweep of four coordinates, some protected and some not
C3_Witness ==
    /\ sw.pc = "done"
    /\ AnyCategory
    /\ sw.result[1] = 4
    /\ sw.result[3] \in 1..3

\* the file the code resolves for category t at (x, y) in the directory as
\* it stood when the sweep was called
FileAt(x, y, t) == ResolvePath(disk0, CoordinateToFilename(x, y, t), <<>>)

Enabled(t) ==
    IF t = "M" THEN args.delete_map_data
    ELSE IF t = "C" THEN args.delete_chunk_data ELSE args.delete_zpop_data

\* the unprotected coordinates of the rectangle that map to file p for
\* category t
Sharing(p, t) ==
    {c \in Swept : FileAt(c[1], c[2], t) = p /\ ~(Loaded /\ InPaddedSafehouse(c[1], c[2]))}

\* C4: no file is unlinked or reported twice in one sweep; once the sweep is
\* over, a chunkdata or zpop file that two or more unprotected coordinates
\* of the rectangle map to has been handled by exactly one acting call
\* ("Would delete" in a dry run, otherwise an unlink, after which the file
\* is gone unless the unlink failed), and files_deleted has one unit for
\* each acting call
C4_SharedFileDeletedOnce ==
    /\ \A i, j \in Acting : calls[i].key = calls[j].key => i = j
    /\ sw.files_deleted = Cardinality(Acting)
    /\ sw.pc \in {"return", "done"} =>
        \A t \in {"C", "Z"} : \A p \in disk0 :
            (Enabled(t) /\ Cardinality(Sharing(p, t)) >= 2) =>
                /\ Cardinality({i \in Acting : calls[i].key = p}) = 1
                /\ \A i \in Acting : calls[i].key = p =>
                    /\ calls[i].printed = IF args.dry_run THEN "Would delete"
                                          ELSE IF p \in locked THEN "Error deleting"
                                          ELSE "Deleted"
                    /\ (p \in disk) = (args.dry_run \/ p \in locked)

\* a finished sweep in which a chunk file was asked for at two coordinates
\* and handled at the first only
C4_Witness ==
    /\ sw.pc = "done"
    /\ \E i, j \in 1..Len(calls) :
        /\ i < j
        /\ calls[i].filetype = "C"
        /\ calls[i].key = calls[j].key
        /\ <<calls[i].x, calls[i].y>> # <<calls[j].x, calls[j].y>>
        /\ calls[i].acted
        /\ ~calls[j].acted
        /\ Cardinality(Sharing(calls[i].key, "C")) >= 2

----------------------------------------------------------------------------
(* More claims about load_safehouses (SpecDecoder).                        *)

\* map_meta.bin was read and its first 4 bytes are not "META"
Unmarked ==
    /\ file.exists /\ file.readable
    /\ Len(data) >= 4
    /\ SubSeq(data, 1, 4) # MetaMarker

\* C11: when the first 4 bytes of the buffer are not "META", the version is
\* set to 33 and the cursor is back at offset 0, its mark cleared, before
\* anything else is decoded (and, 33 being below 194, nothing else is)
C11_UnmarkedIsVersion33 ==
    (Unmarked /\ ls.pc \notin {"open", "header"}) =>
        /\ ls.version = 33
        /\ ls.position = 0
        /\ ls.mark = <<>>

\* the probe of an unmarked file has just been made
C11_Witness ==
    /\ Unmarked
    /\ ~file.marker
    /\ ls.pc = "version"
    /\ ls.version = 33

\* the buffer of a version >= 194 file ends exactly after the bounds and the
\* room and building definitions
CutAfterSkips ==
    /\ file.exists /\ file.readable /\ file.marker /\ file.version >= 194
    /\ data = PackHead(file)

\* C12: when the buffer ends exactly after the bounds and the skip section,
\* the read of the safehouse count fails and load_safehouses returns the
\* empty list there and then: no error reaches the caller, the cursor stays
\* at the end of the buffer and no safehouse record is attempted
C12_MissingCountIsEmpty ==
    CutAfterSkips =>
        /\ ls.pc \notin {"records", "return"}
        /\ ls.pc = "done" =>
            /\ ls.outcome = "returned"
            /\ ls.result = <<>>
            /\ ls.error = "ValueError"
            /\ ls.position = Len(data)
            /\ ls.idx = 0

\* such a file, with room and building definitions to skip, has been decoded
C12_Witness ==
    /\ CutAfterSkips
    /\ file.rooms = 1 /\ file.buildings = 1
    /\ file.count >= 1
    /\ ls.pc = "done"
    /\ ls.error = "ValueError"
    /\ ls.result = <<>>

----------------------------------------------------------------------------
(* More claims about delete_files_in_area (Spec).                          *)

\* the files the sweep has reported or unlinked so far
Handled == {calls[i].key : i \in Acting}

\* C13: a dry run removes no file: at every point of the sweep the files on
\* disk are those that were there when it was called; each acting call only
\* reports "Would delete" for a file that exists, and files_deleted is the
\* number of files so reported
C13_DryRunRemovesNothing ==
    args.dry_run =>
        /\ disk = disk0
        /\ \A i \in Acting : calls[i].printed = "Would delete" /\ calls[i].key \in disk
        /\ sw.files_deleted = Cardinality(Handled)
        /\ sw.pc = "done" /\ AnyCategory => sw.result[2] = Cardinality(Handled)

\* a finished dry run that reported files of all three categories
C13_Witness ==
    /\ args.dry_run
    /\ sw.pc = "done"
    /\ sw.result[2] >= 3
    /\ \A t \in {"M", "C", "Z"} : \E i \in Acting : calls[i].filetype = t
    /\ disk = disk0

\* the coordinates of the rectangle that no safehouse protects
Unprotected == {c \in Swept : ~(Loaded /\ InPaddedSafehouse(c[1], c[2]))}

\* q is the floor of v / 30
IsFloorOf30(q, v) == 30 * q <= v /\ v < 30 * q + 30

\* file p holds data of coordinate c: the tile file of c, or the chunkdata
\* or zpop file of the chunk (c.x // 30, c.y // 30)
HoldsDataOf(p, c) ==
    IF p[2] \in {"map", "tile"} THEN p[3] = c[1] /\ p[4] = c[2]
    ELSE IF p[2] \in {"chunkdata", "zpop"} THEN IsFloorOf30(p[3], c[1]) /\ IsFloorOf30(p[4], c[2])
    ELSE FALSE

\* C14: the sweep leaves every other file alone: a file that is gone is the
\* tile file of an unprotected coordinate of the rectangle, or the
\* chunkdata or zpop file whose chunk key is (x // 30, y // 30), floor
\* division, for such a coordinate (x, y)
C14_OnlySweptFilesDeleted ==
    /\ disk \subseteq disk0
    /\ \A p \in disk0 \ disk : \E c \in Unprotected : HoldsDataOf(p, c)

\* a finished real sweep of column x = -1 only: the chunk files of chunk
\* column -1 are gone, those of chunk column 0 and the tile files outside
\* the rectangle are still there
C14_Witness ==
    /\ sw.pc = "done"
    /\ args.start_x = -1 /\ args.end_x = 0
    /\ <<"root", "chunkdata", -1, 0>> \in disk0 \ disk
    /\ <<"root", "zpop", -1, 0>> \in disk0 \ disk
    /\ <<"root", "map", -1, 28>> \in disk0 \ disk
    /\ <<"root", "chunkdata", 0, 0>> \in disk
    /\ <<"root", "map", 0, 28>> \in disk
    /\ <<"root", "map", -2, 28>> \in disk

\* C15 (the sweep): a tile file stored as map/X/Y.bin is deleted, and
\* counted, by a real sweep with map data enabled over an area that contains
\* the unprotected coordinate (X, Y)
C15_BinTileIsDeleted ==
    (sw.pc = "done" /\ ~args.dry_run /\ args.delete_map_data) =>
        \A p \in disk0 \ locked :
            (p[1] = "map" /\ p[2] = "tile.bin" /\ <<p[3], p[4]>> \in Unprotected) =>
                /\ p \notin disk
                /\ \E i \in Acting : calls[i].key = p

----------------------------------------------------------------------------
(* Claims about the version check and the skip section (SpecDecoder).      *)

\* the header of a file that was read has been decoded
HeaderDecoded ==
    /\ file.exists /\ file.readable
    /\ ls.pc \notin {"open", "header"}
    /\ \/ Unmarked
       \/ Len(data) >= 8 /\ SubSeq(data, 1, 4) = MetaMarker

\* C16: when the decoded version is below 194 (a META file of an older
\* version, or an unmarked file, version 33) load_safehouses returns the
\* empty list at once: the cursor never moves past the header (offset 8, or
\* 0 for an unmarked file), so neither the world bounds nor any later byte
\* is read
C16_OldVersionReadsNoFurther ==
    (HeaderDecoded /\ ls.version < 194) =>
        /\ ls.pc \in {"version", "done"}
        /\ ls.position = IF Unmarked THEN 0 ELSE 8
        /\ ls.world = EntryFrame.world
        /\ ls.error = "none"
        /\ ls.pc = "done" => (ls.outcome = "returned" /\ ls.result = <<>>)

\* a version 193 file with a safehouse in it was decoded to the end
C16_Witness ==
    /\ HeaderDecoded
    /\ file.marker /\ file.version = 193
    /\ ls.version = 193
    /\ Len(data) = Len(PackFile(file))
    /\ file.count = 1
    /\ ls.pc = "done"
    /\ ls.result = <<>>

\* the bytes of one cell of the skip section: the room count and 8 + 2 bytes
\* per room, the building count and 8 + 1 + 4 + 1 + 1 + 4 bytes per building
CellBytes == 4 + (8 + 2) * file.rooms + 4 + (8 + 1 + 4 + 1 + 1 + 4) * file.buildings

\* the cells visited before cell c when x is the outer loop
CellsBefore(c) ==
    (c[1] - file.world[1]) * (file.world[4] - file.world[2] + 1) + (c[2] - file.world[2])

\* a version >= 194 file whose buffer holds the bounds and all the cells
HeadIsWhole ==
    /\ file.exists /\ file.readable /\ file.marker /\ file.version >= 194
    /\ Len(data) >= 24 + CellCount(file.world) * CellBytes

\* C17: in a META file of version >= 194 the skip section goes through the
\* cells of [min_x, max_x] x [min_y, max_y], x outer and y inner, and takes
\* 4 + 10 per room + 4 + 19 per building bytes of each: cell c is read at
\* offset 24 + (cells before c) * (bytes of a cell), and the safehouse count
\* at offset 24 + (number of cells) * (bytes of a cell); no read fails
\* before the count
C17_CountFollowsSkipSection ==
    HeadIsWhole =>
        /\ ls.pc \in {"cells", "count"} => (ls.world = file.world /\ ls.error = "none")
        /\ ls.pc = "cells" =>
            /\ ls.cell[1] \in file.world[1]..file.world[3]
            /\ ls.cell[2] \in file.world[2]..file.world[4]
            /\ ls.position = 24 + CellsBefore(ls.cell) * CellBytes
        /\ ls.pc = "count" => ls.position = 24 + CellCount(file.world) * CellBytes
        /\ ls.pc \in {"records", "return"} =>
              ls.position >= 24 + CellCount(file.world) * CellBytes + 4
        /\ (ls.pc = "done" /\ ls.error # "none") =>
              ls.position >= 24 + CellCount(file.world) * CellBytes

\* the third of 2 x 2 cells is about to be skipped: x is the outer loop
C17_Witness ==
    /\ HeadIsWhole
    /\ file.world = <<0, -1, 1, 0>>
    /\ file.rooms = 2 /\ file.buildings = 1
    /\ ls.pc = "cells"
    /\ ls.cell = <<1, -1>>
    /\ ls.position = 118

\* C18: the files_deleted a real sweep returns is the number of files it
\* removed from disk, also when the deletion of some file fails
C18_DeletedCountsRemovedFiles ==
    (sw.pc = "done" /\ ~args.dry_run /\ AnyCategory) =>
        sw.result[2] = Cardinality(disk0 \ disk)

\* map before chunk before zpop
Rank(filetype) == IF filetype = "M" THEN 1 ELSE IF filetype = "C" THEN 2 ELSE 3

\* call a comes before call b: at a smaller x, or at the same x and a
\* smaller y, or at the same coordinate for an earlier category
ComesBefore(a, b) ==
    \/ a.x < b.x
    \/ a.x = b.x /\ a.y < b.y
    \/ a.x = b.x /\ a.y = b.y /\ Rank(a.filetype) < Rank(b.filetype)

\* C19: the k-th coordinate visited is the k-th of the rectangle in
\* row-major order, x outer and y inner; the calls of the deletion step are
\* made in (x, y) order and, at one coordinate, in the order map, chunk,
\* zpop; and a file is unlinked or reported by the first call that asks for
\* it
C19_RowMajorOrder ==
    /\ \A k \in 1..Len(visits) :
        visits[k] = <<args.start_x + ((k - 1) \div (args.end_y - args.start_y)),
                      args.start_y + ((k - 1) % (args.end_y - args.start_y))>>
    /\ \A i, j \in 1..Len(calls) : i < j => ComesBefore(calls[i], calls[j])
    /\ \A i \in Acting : \A j \in 1..(i - 1) : calls[j].key # calls[i].key

\* a finished sweep of 2 x 2 coordinates with all three categories
C19_Witness ==
    /\ sw.pc = "done"
    /\ visits = <<<<-1, 28>>, <<-1, 29>>, <<0, 28>>, <<0, 29>>>>
    /\ Len(calls) = 12
    /\ Cardinality(Acting) >= 6

----------------------------------------------------------------------------
(* More claims about BinaryReader (SpecReader).                            *)

\* C20: whatever the calls made on a BinaryReader, its position stays
\* within 0..len(data), and a successful read or skip never leaves it below
\* where it was before the call
C20_PositionInBoundsAndMonotonic ==
    /\ position \in 0..Len(data)
    /\ (last.ok /\ last.op \notin {"none", "mark", "reset"}) => position >= last.before

----------------------------------------------------------------------------
(* Claims about what protection and dry runs leave on disk (Spec).         *)

\* the tile coordinates inside a decoded safehouse region pushed out by the
\* padding, swept or not
ProtectedTiles ==
    UNION {{<<x, y>> :
              x \in (ls.result[i].region.from_x - args.safehouse_padding)
                    ..(ls.result[i].region.to_x + args.safehouse_padding - 1),
              y \in (ls.result[i].region.from_y - args.safehouse_padding)
                    ..(ls.result[i].region.to_y + args.safehouse_padding - 1)} :
           i \in 1..Len(ls.result)}

\* C21: with safehouse protection on, a file that holds data of a protected
\* coordinate is never deleted: the tile file of a protected coordinate
\* stays, and so does a chunkdata or zpop file whose 30 x 30 block has a
\* protected coordinate in it
C21_ProtectedDataSurvives ==
    Loaded =>
        \A p \in disk0 : (\E c \in ProtectedTiles : HoldsDataOf(p, c)) => p \in disk

\* the files a dry run reports: what each unprotected coordinate of the
\* rectangle resolves to, for each enabled category, in the directory as it
\* stood when the sweep was called (a dry run never changes it)
Previewed ==
    {p \in disk0 :
        \E c \in Unprotected : \E t \in {"M", "C", "Z"} :
            /\ Enabled(t)
            /\ p = ResolvePath(disk0, CoordinateToFilename(c[1], c[2], t),
                               IF t = "M" THEN c ELSE <<>>)}

\* C22: when no deletion fails, a dry run and a real run of the same sweep
\* on the same directory return the same three totals, and the files the
\* dry run reports as "Would delete" are the files the real run deletes,
\* also when a file exists in both the flat and the nested layout: either
\* run counts the coordinates of the rectangle and the protected ones among
\* them, the dry run reports the previewed files, and the real run deletes
\* exactly those and returns their number
C22_DryRunPreviewsRealRun ==
    (sw.pc = "done" /\ AnyCategory /\ locked = {}) =>
        /\ sw.result[1] = Cardinality(Swept)
        /\ sw.result[3] = Cardinality(Swept \ Unprotected)
        /\ sw.result[2] = Cardinality(Previewed)
        /\ args.dry_run => Handled = Previewed
        /\ ~args.dry_run => disk0 \ disk = Previewed

====
